---- MODULE Spec2Model ----
(***************************************************************************)
(* Model of the WhatsApp inbox / bulk sender services.                     *)
(*                                                                         *)
(*   app/services/bulk_sender.py        BulkMessageSender (dispatch)       *)
(*   app/services/whatsapp.py           WhatsAppService (channel client)   *)
(*   app/services/inbox.py              InboxService (conversations)       *)
(*   app/services/mongodb_cache.py      MongoDBCache                       *)
(*   app/websockets/connection_manager.py  ConnectionManager (hub)         *)
(*                                                                         *)
(* The document store behind db.db is an external collaborator: every      *)
(* awaited store call either takes effect, raises without effect, or       *)
(* takes effect and then raises to the caller.                             *)
(* app/services/mongodb_rate_limiter.py is not part of the sources; its    *)
(* acquire is modelled from the specification.                             *)
(***************************************************************************)
EXTENDS Integers, Sequences, FiniteSets, TLC

\* ------------------------------------------------------------------------
\* Bounds of the model
\* ------------------------------------------------------------------------
MaxContacts == 2
MaxSlot == 1

\* ------------------------------------------------------------------------
\* Program constants
\* ------------------------------------------------------------------------
max_requests == 80
window_seconds == 1
stop_after_attempt == 3
DefaultRetryAfter == 60

NoId == 0
None == "None"

\* ------------------------------------------------------------------------
\* Strings are sequences of one-character strings
\* ------------------------------------------------------------------------
DigitChars == {"0", "1", "2", "3", "4", "5", "6", "7", "8", "9"}
SpaceChars == {" "}

isdigit(c) == c \in DigitChars

RECURSIVE FilterDigits(_)
FilterDigits(s) ==
    IF s = <<>> THEN <<>>
    ELSE (IF isdigit(Head(s)) THEN <<Head(s)>> ELSE <<>>) \o FilterDigits(Tail(s))

RECURSIVE lstrip(_)
lstrip(s) ==
    IF s = <<>> THEN <<>>
    ELSE IF Head(s) \in SpaceChars THEN lstrip(Tail(s)) ELSE s

RECURSIVE rstrip(_)
rstrip(s) ==
    IF s = <<>> THEN <<>>
    ELSE IF s[Len(s)] \in SpaceChars THEN rstrip(SubSeq(s, 1, Len(s) - 1)) ELSE s

strip(s) == rstrip(lstrip(s))

normalize_phone_number(phone) ==
    LET cleaned == FilterDigits(phone)
    IN  IF Len(cleaned) = 10 THEN <<"9", "1">> \o cleaned ELSE cleaned

\* ------------------------------------------------------------------------
\* Sample inputs
\* ------------------------------------------------------------------------
PhoneBlank == <<" ", " ">>
PhoneAlpha == <<"a", "b", "1", "2">>
PhoneTen   == <<" ", "9", "8", "7", "6", "5", "4", "3", "2", "1", "0">>

\* a contact is a dict: phone_key says whether 'phone' is missing, None or a string
ContactSamples ==
    { [phone_key |-> "missing", phone |-> <<>>,       has_name |-> TRUE],
      [phone_key |-> "none",    phone |-> <<>>,       has_name |-> FALSE],
      [phone_key |-> "str",     phone |-> PhoneBlank, has_name |-> TRUE],
      [phone_key |-> "str",     phone |-> PhoneAlpha, has_name |-> TRUE],
      [phone_key |-> "str",     phone |-> PhoneTen,   has_name |-> FALSE] }

ContactLists == UNION { [1..n -> ContactSamples] : n \in 0..MaxContacts }

\* "named" is a template with the placeholder {name}, "positional" one with {0}
Templates == {"named", "positional"}

\* what the channel does with one network request
Responses == {"timeout", "connerr", "s429", "s500", "s400", "s200", "s200noid"}
\* the environment of one attempt: the limiter's store may be down
Attempts == Responses \cup {"store_down"}
\* later attempts of a script: a transient failure again, or success
FollowUps == {"timeout", "s200"}
Scripts(first) == { s \in [1..stop_after_attempt -> Attempts] :
                      /\ s[1] \in first
                      /\ \A k \in 2..stop_after_attempt : s[k] \in FollowUps }
\* the first attempts explored inside a campaign
DispatchAttempts == {"timeout", "s500", "s200", "s200noid", "store_down"}

StoreOutcomes == {"ok", "lost", "applied_raise"}


\* ------------------------------------------------------------------------
\* Rate Limiter (app/services/mongodb_rate_limiter.py is not in the sources;
\* acquire follows section 4.1 of the specification: an atomic
\* increment-and-check on the window keyed by (bucket, slot), created on
\* first use of the slot)
\* ------------------------------------------------------------------------
Bucket == "whatsapp_api"

current_slot(t) == t \div window_seconds

WindowCount(win, bucket, slot) ==
    IF <<bucket, slot>> \in DOMAIN win THEN win[<<bucket, slot>>] ELSE 0

acquire_denies_next_slot(win, bucket, t) ==
    LET key  == <<bucket, current_slot(t)>>
        seen == IF \E k \in DOMAIN win : k[1] = bucket
                THEN CHOOSE k \in DOMAIN win :
                         k[1] = bucket /\ \A j \in DOMAIN win : j[1] = bucket => j[2] <= k[2]
                ELSE key
        cnt  == WindowCount(win, bucket, seen[2])
    IN  IF cnt < max_requests
        THEN [granted |-> TRUE,
              window  |-> [k \in DOMAIN win \cup {key} |->
                              IF k = key THEN WindowCount(win, bucket, key[2]) + 1 ELSE win[k]]]
        ELSE [granted |-> FALSE, window |-> win]

acquire(win, bucket, t) ==
    LET key == <<bucket, current_slot(t)>>
        cnt == WindowCount(win, bucket, key[2])
    IN  IF cnt < max_requests
        THEN [granted |-> TRUE,
              window  |-> [k \in DOMAIN win \cup {key} |-> IF k = key THEN cnt + 1 ELSE win[k]]]
        ELSE [granted |-> FALSE, window |-> win]

\* ------------------------------------------------------------------------
\* Channel Client (app/services/whatsapp.py)
\* ------------------------------------------------------------------------
NoResult == [success |-> FALSE, message_id |-> NoId, error |-> None, error_code |-> 0]

Failure(err, code) == [success |-> FALSE, message_id |-> NoId, error |-> err, error_code |-> code]

\* a try block that calls response.raise_for_status() on a 4xx answer
make_request_try_raise_for_status(resp, id) ==
    CASE resp = "timeout"  -> [exc |-> "Timeout", ret |-> NoResult, slept |-> 0]
      [] resp = "connerr"  -> [exc |-> "ConnectionError", ret |-> NoResult, slept |-> 0]
      [] resp = "s429"     -> [exc |-> "RetryError", ret |-> NoResult, slept |-> DefaultRetryAfter]
      [] resp = "s200"     -> [exc |-> "none", slept |-> 0,
                               ret |-> [success |-> TRUE, message_id |-> id,
                                        error |-> None, error_code |-> 0]]
      [] resp = "s200noid" -> [exc |-> "none", slept |-> 0,
                               ret |-> [success |-> TRUE, message_id |-> NoId,
                                        error |-> None, error_code |-> 0]]
      [] resp = "s500"     -> [exc |-> "none", slept |-> 0, ret |-> Failure("Server error", 500)]
      [] OTHER             -> [exc |-> "HTTPError", ret |-> NoResult, slept |-> 0]

\* the try block of _make_request for one channel response: either a value
\* is returned (exc = "none") or an exception is raised inside the block
make_request_try(resp, id) ==
    CASE resp = "timeout"  -> [exc |-> "Timeout", ret |-> NoResult, slept |-> 0]
      [] resp = "connerr"  -> [exc |-> "ConnectionError", ret |-> NoResult, slept |-> 0]
      [] resp = "s429"     -> [exc |-> "RetryError", ret |-> NoResult, slept |-> DefaultRetryAfter]
      [] resp = "s200"     -> [exc |-> "none", slept |-> 0,
                               ret |-> [success |-> TRUE, message_id |-> id,
                                        error |-> None, error_code |-> 0]]
      [] resp = "s200noid" -> [exc |-> "none", slept |-> 0,
                               ret |-> [success |-> TRUE, message_id |-> NoId,
                                        error |-> None, error_code |-> 0]]
      [] resp = "s500"     -> [exc |-> "none", slept |-> 0, ret |-> Failure("Server error", 500)]
      [] OTHER             -> [exc |-> "none", slept |-> 0, ret |-> Failure("Bad request", 400)]

\* a _make_request without the except clauses for Timeout and ConnectionError
_make_request_reraises(resp, id) ==
    LET b == make_request_try(resp, id)
    IN  CASE b.exc \in {"none", "Timeout", "ConnectionError"} ->
                 [exc |-> b.exc, ret |-> b.ret, slept |-> b.slept]
          [] OTHER -> [exc |-> "none", slept |-> b.slept, ret |-> Failure("Rate limited", 0)]

\* _make_request: the except clauses turn every exception into a result
_make_request(resp, id) ==
    LET b == make_request_try(resp, id)
    IN  CASE b.exc = "none"            -> [exc |-> "none", ret |-> b.ret, slept |-> b.slept]
          [] b.exc = "Timeout"         -> [exc |-> "none", slept |-> b.slept,
                                           ret |-> Failure("Request timeout", 0)]
          [] b.exc = "ConnectionError" -> [exc |-> "none", slept |-> b.slept,
                                           ret |-> Failure("Connection error", 0)]
          [] OTHER                     -> [exc |-> "none", slept |-> b.slept,
                                           ret |-> Failure("Rate limited", 0)]

RateLimited == Failure("Rate limit exceeded", 429)

\* the result of one execution of a send operation
\* att: what the environment does in this attempt ("store_down": the limiter's
\* store raises); id: identifier the channel would assign to this request
Raised(exc, win) ==
    [exc |-> exc, ret |-> NoResult, window |-> win, slept |-> 0, acquired |-> 0,
     requests |-> <<>>]

Returned(ret, win) ==
    [exc |-> "none", ret |-> ret, window |-> win, slept |-> 0, acquired |-> 1,
     requests |-> <<>>]

\* return await self._make_request(payload)
Requested(win, to, type, att, id) ==
    LET r == _make_request(att, id)
    IN  [exc |-> r.exc, ret |-> r.ret, window |-> win, slept |-> r.slept, acquired |-> 1,
         requests |-> << [to |-> normalize_phone_number(to), type |-> type,
                          resp |-> att, id |-> id] >>]

\* the body of send_text_message (lines 39-58), one attempt
send_text_message_body(win, t, to, att, id) ==
    IF att = "store_down" THEN Raised("StoreError", win)
    ELSE LET a == acquire(win, Bucket, t)
         IN  IF ~a.granted THEN Returned(RateLimited, a.window)
             ELSE Requested(a.window, to, "text", att, id)

send_template_message_unlimited(win, t, to, att, id) ==
    IF att = "store_down" THEN Raised("StoreError", win)
    ELSE Requested(acquire(win, Bucket, t).window, to, "template", att, id)

\* send_template_message (lines 60-90)
send_template_message(win, t, to, att, id) ==
    IF att = "store_down" THEN Raised("StoreError", win)
    ELSE LET a == acquire(win, Bucket, t)
         IN  IF ~a.granted THEN Returned(RateLimited, a.window)
             ELSE Requested(a.window, to, "template", att, id)

\* send_media_message (lines 92-131)
send_media_message(win, t, to, media_type, has_url, has_id, att, id) ==
    IF att = "store_down" THEN Raised("StoreError", win)
    ELSE LET a == acquire(win, Bucket, t)
         IN  IF ~a.granted THEN Returned(RateLimited, a.window)
             ELSE IF ~has_url /\ ~has_id
                  THEN Returned(Failure("Either media_url or media_id must be provided", 0),
                                a.window)
                  ELSE Requested(a.window, to, media_type, att, id)

\* @retry(stop=stop_after_attempt(3), wait=wait_exponential(multiplier=1, min=2, max=10),
\*        retry=retry_if_exception_type((Timeout, ConnectionError, HTTPError)))
retry_if_exception_type == {"Timeout", "ConnectionError", "HTTPError"}

Pow2(n) == IF n <= 0 THEN 1 ELSE IF n = 1 THEN 2 ELSE IF n = 2 THEN 4 ELSE IF n = 3 THEN 8 ELSE 16

wait_exponential(attempt) ==
    LET r == 1 * Pow2(attempt - 1)
        m == IF r < 10 THEN r ELSE 10
    IN  IF m > 2 THEN m ELSE 2

RECURSIVE Retrying(_, _, _, _, _, _, _)
Retrying(attempt, win, t, to, script, idbase, acc) ==
    LET o    == send_text_message_body(win, t, to, script[attempt], idbase + Len(acc.requests) + 1)
        acc2 == [acquired |-> acc.acquired + o.acquired,
                 requests |-> acc.requests \o o.requests,
                 attempts |-> attempt]
    IN  IF o.exc \in retry_if_exception_type /\ attempt < stop_after_attempt
        THEN Retrying(attempt + 1, o.window, t + o.slept + wait_exponential(attempt),
                      to, script, idbase, acc2)
        ELSE [exc      |-> IF o.exc \in retry_if_exception_type THEN "RetryError" ELSE o.exc,
              ret      |-> o.ret,
              window   |-> o.window,
              now      |-> t + o.slept,
              acquired |-> acc2.acquired,
              requests |-> acc2.requests,
              attempts |-> attempt]

send_text_message(win, t, to, script, idbase) ==
    Retrying(1, win, t, to, script, idbase, [acquired |-> 0, requests |-> <<>>, attempts |-> 0])


\* ------------------------------------------------------------------------
\* Campaign Dispatcher (app/services/bulk_sender.py)
\* ------------------------------------------------------------------------
VARIABLES
    contacts,          \* send_bulk_messages argument
    message_template,  \* send_bulk_messages argument
    has_callback,      \* whether progress_callback was passed
    pc,                \* position of send_bulk_messages
    index,             \* enumerate(contacts, 1)
    phone,             \* local of the loop body
    message,           \* local of the loop body
    result,            \* local of the loop body
    script,            \* what the channel does with the attempts of the current send
    successful,        \* list of contacts (by position in the input)
    failed,            \* list of contacts (by position) with their error
    campaign,          \* the record in db.campaigns
    messages,          \* db.messages
    sendLog,           \* calls of the Channel Client, per recipient
    progressLog,       \* calls of progress_callback
    raised_by,         \* where an exception left send_bulk_messages
    faults,            \* per recipient, the first thing that went wrong with it
    validation,        \* the latest validate_contacts(contacts): its result or exception
    window,            \* the shared Rate Window
    now,               \* wall clock, seconds
    next_id            \* identifiers the channel has assigned so far

dispatchVars == <<contacts, message_template, has_callback, pc, index, phone, message,
                  result, script, successful, failed, campaign, sendLog, progressLog,
                  raised_by, faults, validation>>

\* state shared by the services: db.messages, the Rate Window, the clock and
\* the identifiers of the channel
sharedVars == <<messages, window, now, next_id>>

delay == 1

total == Len(contacts)

NoCampaign == [exists |-> FALSE, status |-> None, total_contacts |-> 0,
               successful_count |-> 0 - 1, failed_count |-> 0 - 1, updates |-> 0]

NoScript == <<>>
NoMessage == [template |-> None, filled |-> FALSE]

\* _personalize_message: template.format(**contact); only KeyError is caught
_personalize_message(template, contact) ==
    CASE template = "plain" -> [exc |-> "none", body |-> [template |-> template, filled |-> FALSE]]
      [] template = "named" -> [exc |-> "none",
                                body |-> [template |-> template, filled |-> contact.has_name]]
      [] OTHER              -> [exc |-> "IndexError", body |-> NoMessage]

\* the except clause of the loop body: failed.append({**contact, "error": str(e)})
OnException_drop(failedList, idx, err) == failedList

OnException(failedList, idx, err) == Append(failedList, [idx |-> idx, error |-> err])

NoValidation == [called |-> FALSE, exc |-> "none", valid |-> <<>>, invalid |-> <<>>,
                 total_valid |-> 0, total_invalid |-> 0]

\* validate_contacts, lines 130-148, from contact number i on: a contact goes
\* to invalid without a phone or with fewer than 10 digits, else to valid;
\* contact.get('phone', '') is None when the key holds None, and None.strip()
\* raises AttributeError out of the function
RECURSIVE validate_loop(_, _, _, _)
validate_loop(cs, i, valid, invalid) ==
    IF i > Len(cs) THEN [exc |-> "none", valid |-> valid, invalid |-> invalid]
    ELSE IF cs[i].phone_key = "none"
         THEN [exc |-> "AttributeError", valid |-> <<>>, invalid |-> <<>>]
    ELSE LET ph == IF cs[i].phone_key = "missing" THEN <<>> ELSE strip(cs[i].phone)
         IN  IF ph = <<>>
             THEN validate_loop(cs, i + 1, valid,
                                Append(invalid, [idx |-> i, error |-> "Missing phone number"]))
             ELSE IF Len(FilterDigits(ph)) < 10
             THEN validate_loop(cs, i + 1, valid,
                                Append(invalid, [idx |-> i, error |-> "Invalid phone number"]))
             ELSE validate_loop(cs, i + 1, Append(valid, i), invalid)

\* validate_contacts, lines 125-155
validate_contacts(cs) ==
    LET r == validate_loop(cs, 1, <<>>, <<>>)
    IN  [called |-> TRUE, exc |-> r.exc, valid |-> r.valid, invalid |-> r.invalid,
         total_valid |-> Len(r.valid), total_invalid |-> Len(r.invalid)]

\* the caller validates the list it dispatches
ValidateContacts ==
    /\ ~validation.called
    /\ validation' = validate_contacts(contacts)
    /\ UNCHANGED <<contacts, message_template, has_callback, pc, index, phone, message,
                   result, script, successful, failed, campaign, sendLog, progressLog,
                   raised_by, faults, messages, window, now, next_id>>

DispatchInit ==
    /\ contacts \in ContactLists
    /\ message_template \in Templates
    /\ has_callback \in BOOLEAN
    /\ pc = "start"
    /\ index = 1
    /\ phone = <<>>
    /\ message = NoMessage
    /\ result = NoResult
    /\ script = NoScript
    /\ successful = <<>>
    /\ failed = <<>>
    /\ campaign = NoCampaign
    /\ sendLog = <<>>
    /\ progressLog = <<>>
    /\ raised_by = None
    /\ faults = [i \in 1..Len(contacts) |-> "none"]
    /\ validation = NoValidation

\* _create_campaign (line 29), outside the try block
CreateCampaign ==
    /\ pc = "start"
    /\ \E o \in StoreOutcomes :
        /\ campaign' = IF o = "lost" THEN campaign
                       ELSE [exists |-> TRUE, status |-> "running", total_contacts |-> total,
                             successful_count |-> 0 - 1, failed_count |-> 0 - 1, updates |-> 0]
        /\ pc' = IF o = "ok" THEN "loop" ELSE "raised"
        /\ raised_by' = IF o = "ok" THEN raised_by ELSE "_create_campaign"
    /\ UNCHANGED <<validation, contacts, message_template, has_callback, index, phone, message, result,
                   script, successful, failed, messages, sendLog, progressLog, window, now,
                   next_id, faults>>

\* the first fault of recipient i is remembered
Fault(i, kind) == [faults EXCEPT ![i] = IF @ = "none" THEN kind ELSE @]

\* lines 31-46: validation, personalization and the channel call of one recipient
ProcessContact ==
    /\ pc = "loop"
    /\ index <= total
    /\ LET contact == contacts[index]
           stripped == strip(contact.phone)
           pm == _personalize_message(message_template, contact)
       IN  CASE contact.phone_key = "none" ->
                    \* None has no strip(): AttributeError, caught by the except clause
                    /\ failed' = OnException(failed, index, "AttributeError")
                    /\ faults' = Fault(index, "phone_error")
                    /\ index' = index + 1
                    /\ pc' = "loop"
                    /\ UNCHANGED <<phone, message, result, script, sendLog, window, now, next_id>>
             [] contact.phone_key = "missing" \/ stripped = <<>> ->
                    /\ failed' = Append(failed, [idx |-> index, error |-> "No phone number"])
                    /\ faults' = Fault(index, "validation")
                    /\ index' = index + 1
                    /\ pc' = "loop"
                    /\ UNCHANGED <<phone, message, result, script, sendLog, window, now, next_id>>
             [] OTHER ->
                    IF pm.exc # "none"
                    THEN /\ failed' = OnException(failed, index, pm.exc)
                         /\ faults' = Fault(index, "personalize")
                         /\ index' = index + 1
                         /\ pc' = "loop"
                         /\ phone' = stripped
                         /\ UNCHANGED <<message, result, script, sendLog, window, now, next_id>>
                    ELSE \E sc \in Scripts(DispatchAttempts) :
                          LET r == send_text_message(window, now, stripped, sc, next_id)
                          IN  /\ phone' = stripped
                              /\ message' = pm.body
                              /\ script' = sc
                              /\ window' = r.window
                              /\ now' = r.now
                              /\ next_id' = next_id + Len(r.requests)
                              /\ sendLog' = Append(sendLog,
                                     [idx |-> index, acquired |-> r.acquired,
                                      requests |-> r.requests, attempts |-> r.attempts])
                              /\ IF r.exc # "none"
                                 THEN /\ failed' = OnException(failed, index, r.exc)
                                      /\ faults' = Fault(index, "channel_exception")
                                      /\ index' = index + 1
                                      /\ pc' = "loop"
                                      /\ UNCHANGED result
                                 ELSE /\ result' = r.ret
                                      /\ faults' = IF r.ret.success THEN faults
                                                   ELSE Fault(index, "channel_result")
                                      /\ pc' = "persist"
                                      /\ UNCHANGED <<failed, index>>
    /\ UNCHANGED <<validation, contacts, message_template, has_callback, successful, campaign, messages,
                   progressLog, raised_by>>

\* an insert that puts the new document in front of the collection
insert_one_first(coll, doc) == <<doc>> \o coll

\* db.messages.insert_one(message_data): the collection keeps insertion order
insert_one(coll, doc) == Append(coll, doc)

\* a status that never leaves running
campaign_status_running(nsuccessful, nfailed) == "running"

\* a status that asks for one delivered message to call the campaign completed
campaign_status_needs_success(nsuccessful, nfailed) ==
    IF nsuccessful > 0 THEN "completed" ELSE "failed"

\* lines 49-81: the Message record is inserted, then the contact is appended
SaveMessage ==
    /\ pc = "persist"
    /\ \E o \in StoreOutcomes :
        LET message_data ==
                IF result.success
                THEN [user_id |-> phone, direction |-> "outbound", body |-> message,
                      timestamp |-> now, status |-> "sent",
                      message_id |-> result.message_id, error_reason |-> None,
                      idx |-> index]
                ELSE [user_id |-> phone, direction |-> "outbound", body |-> message,
                      timestamp |-> now, status |-> "failed", message_id |-> NoId,
                      error_reason |-> result.error, idx |-> index]
        IN  /\ messages' = IF o = "lost" THEN messages ELSE insert_one(messages, message_data)
            /\ IF o = "ok"
               THEN /\ successful' = IF result.success THEN Append(successful, index)
                                     ELSE successful
                    /\ failed' = IF result.success THEN failed
                                 ELSE Append(failed, [idx |-> index, error |-> result.error])
                    /\ pc' = "progress"
                    /\ UNCHANGED index
               ELSE /\ failed' = OnException(failed, index, "StoreError")
                    /\ UNCHANGED successful
                    /\ index' = index + 1
                    /\ pc' = "loop"
            /\ faults' = IF o = "ok" THEN faults ELSE Fault(index, "persist")
    /\ script' = NoScript
    /\ UNCHANGED <<validation, contacts, message_template, has_callback, phone, message, result, campaign,
                   sendLog, progressLog, raised_by, window, now, next_id>>

\* lines 84-85: the optional progress callback; it may raise
ProgressCallback ==
    /\ pc = "progress"
    /\ \/ /\ ~has_callback
          /\ pc' = "sleep"
          /\ UNCHANGED <<progressLog, failed, index, faults>>
       \/ /\ has_callback
          /\ progressLog' = Append(progressLog, <<index, total, Len(successful), Len(failed)>>)
          /\ \E raises \in BOOLEAN :
                IF raises
                THEN /\ failed' = OnException(failed, index, "CallbackError")
                     /\ faults' = Fault(index, "callback")
                     /\ index' = index + 1
                     /\ pc' = "loop"
                ELSE /\ pc' = "sleep"
                     /\ UNCHANGED <<failed, index, faults>>
    /\ UNCHANGED <<validation, contacts, message_template, has_callback, phone, message, result, script,
                   successful, campaign, messages, sendLog, raised_by, window, now, next_id>>

\* lines 88-89: asyncio.sleep(delay) unless this was the last contact
DelayBetweenMessages ==
    /\ pc = "sleep"
    /\ now' = IF index < total THEN now + delay ELSE now
    /\ index' = index + 1
    /\ pc' = "loop"
    /\ UNCHANGED <<validation, contacts, message_template, has_callback, phone, message, result, script,
                   successful, failed, campaign, messages, sendLog, progressLog, raised_by,
                   window, next_id, faults>>

\* _update_campaign (lines 99, 176-190), outside the try block
campaign_status(nsuccessful, nfailed) ==
    IF nsuccessful + nfailed > 0 THEN "completed" ELSE "failed"

UpdateCampaign ==
    /\ pc = "loop"
    /\ index > total
    /\ \E o \in StoreOutcomes :
        /\ campaign' = IF o = "lost" \/ ~campaign.exists THEN campaign
                       ELSE [campaign EXCEPT
                               !.status = campaign_status(Len(successful), Len(failed)),
                               !.successful_count = Len(successful),
                               !.failed_count = Len(failed),
                               !.updates = @ + 1]
        /\ pc' = IF o = "ok" THEN "done" ELSE "raised"
        /\ raised_by' = IF o = "ok" THEN raised_by ELSE "_update_campaign"
    /\ UNCHANGED <<validation, contacts, message_template, has_callback, index, phone, message, result,
                   script, successful, failed, messages, sendLog, progressLog, window, now,
                   next_id, faults>>

\* ------------------------------------------------------------------------
\* Rate Limiter on its own: callers acquire in the current slot, time passes
\* ------------------------------------------------------------------------
VARIABLES
    acquireCalls,    \* per slot, the number of acquire calls made
    acquireGrants,   \* per slot, the number of acquire calls granted
    lastAcquire,     \* the latest call: its slot, its position in the slot, its verdict
    rpc,             \* per concurrent caller, whether its acquire is pending
    rtime,           \* per concurrent caller, the clock when it called acquire
    rseen,           \* per concurrent caller, the window as it stood when it called
    rres             \* per concurrent caller, the verdict of its latest acquire

rateVars == <<acquireCalls, acquireGrants, lastAcquire, rpc, rtime, rseen, rres>>

\* campaigns and ad-hoc sends that share the bucket
RateCallers == {"p1", "p2", "p3"}

MaxOver == 2

Slots == 0..MaxSlot

RateQuiet ==
    /\ acquireCalls = [s \in Slots |-> 0]
    /\ acquireGrants = [s \in Slots |-> 0]
    /\ lastAcquire = [slot |-> 0, nth |-> 0, granted |-> FALSE]
    /\ rpc = [p \in RateCallers |-> "idle"]
    /\ rtime = [p \in RateCallers |-> 0]
    /\ rseen = [p \in RateCallers |-> << >>]
    /\ rres = [p \in RateCallers |-> "none"]

Acquire ==
    LET slot == current_slot(now)
        a    == acquire(window, Bucket, now)
    IN  /\ acquireCalls[slot] < max_requests + MaxOver
        /\ window' = a.window
        /\ acquireCalls' = [acquireCalls EXCEPT ![slot] = @ + 1]
        /\ acquireGrants' = [acquireGrants EXCEPT ![slot] = IF a.granted THEN @ + 1 ELSE @]
        /\ lastAcquire' = [slot |-> slot, nth |-> acquireCalls[slot] + 1, granted |-> a.granted]
        /\ UNCHANGED <<messages, now, next_id, rpc, rtime, rseen, rres>>

\* a caller awaits rate_limiter.acquire("whatsapp_api"): the request leaves
\* for the store, other callers run until it is answered
AcquireCalled(p) ==
    /\ rpc[p] = "idle"
    /\ acquireCalls[current_slot(now)]
          + Cardinality({q \in RateCallers : rpc[q] = "asking"}) < max_requests + MaxOver
    /\ rpc' = [rpc EXCEPT ![p] = "asking"]
    /\ rtime' = [rtime EXCEPT ![p] = now]
    /\ rseen' = [rseen EXCEPT ![p] = window]
    /\ rres' = [rres EXCEPT ![p] = "none"]
    /\ UNCHANGED <<acquireCalls, acquireGrants, lastAcquire, messages, window, now, next_id>>

\* an acquire that checks the window it read when it was called
window_read_then_write(stored, seen) == seen

\* the window the increment-and-check works on: the stored one, at the
\* moment the store executes the operation
window_read(stored, seen) == stored

\* the store executes the increment-and-check of a pending acquire in one step
AcquireApplied(p) ==
    LET slot == current_slot(rtime[p])
        a    == acquire(window_read(window, rseen[p]), Bucket, rtime[p])
    IN  /\ rpc[p] = "asking"
        /\ window' = a.window
        /\ acquireCalls' = [acquireCalls EXCEPT ![slot] = @ + 1]
        /\ acquireGrants' = [acquireGrants EXCEPT ![slot] = IF a.granted THEN @ + 1 ELSE @]
        /\ lastAcquire' = [slot |-> slot, nth |-> acquireCalls[slot] + 1, granted |-> a.granted]
        /\ rpc' = [rpc EXCEPT ![p] = "idle"]
        /\ rres' = [rres EXCEPT ![p] = IF a.granted THEN "granted" ELSE "denied"]
        /\ UNCHANGED <<rtime, rseen, messages, now, next_id>>

SlotAdvances ==
    /\ current_slot(now) < MaxSlot
    /\ now' = now + window_seconds
    /\ UNCHANGED <<messages, window, next_id>>


\* ------------------------------------------------------------------------
\* Channel Client on its own: ad-hoc sends through the three operations
\* ------------------------------------------------------------------------
VARIABLES
    lastSend,        \* the latest send operation and what it did
    send_count,      \* send operations called so far
    app_secret,      \* WHATSAPP_APP_SECRET, read from the environment at start
    lastVerify       \* the latest validate_webhook_signature call and its outcome

channelVars == <<lastSend, send_count, app_secret, lastVerify>>

MaxSends == 1

SendTargets == {PhoneTen, PhoneAlpha}
MediaTypes == {"image", "audio"}

NoSend == [op |-> "none", to |-> <<>>, store_up |-> TRUE, granted |-> FALSE,
           has_media |-> FALSE, script |-> NoScript, exc |-> "none", ret |-> NoResult,
           requests |-> <<>>, acquired |-> 0, waited |-> 0, first_id |-> 0]

\* validate_webhook_signature (lines 226-240).  A string is a sequence of
\* tokens; the digest of a key and a message is one token, different for
\* different keys or messages
Sha256Prefix == <<"sha256=">>
Sha1Prefix == <<"sha1=">>
NonAsciiToken == <<"non-ascii">>

hexdigest(key, msg) == <<"hmac-sha256", key, msg>>

isascii(text) == \A k \in 1..Len(text) : text[k] # NonAsciiToken

\* hmac.compare_digest on two str: TypeError unless both are ASCII
compare_digest(a, b) ==
    IF ~isascii(a) \/ ~isascii(b)
    THEN [exc |-> "TypeError", ret |-> FALSE]
    ELSE [exc |-> "none", ret |-> a = b]

\* hmac.new(key, msg, sha256): msg=None is the empty message
hmac_msg(payload) == IF payload.present THEN payload.bytes ELSE ""

validate_webhook_signature(secret, payload, signature) ==
    IF ~signature.present \/ signature.text = <<>> \/ secret \in {None, ""}
    THEN [exc |-> "none", ret |-> FALSE]
    ELSE compare_digest(<<Sha256Prefix, hexdigest(secret, hmac_msg(payload))>>,
                        signature.text)

Secrets == {None, "", "s1", "s2"}
PayloadBytes == {"", "p1", "p2"}
Payloads == {[present |-> FALSE, bytes |-> ""]} \cup
            {[present |-> TRUE, bytes |-> b] : b \in PayloadBytes}
SignatureTexts ==
    {<<>>, <<Sha256Prefix, NonAsciiToken>>} \cup
    {<<hexdigest(k, m)>> : k \in {"s1", "s2"}, m \in PayloadBytes} \cup
    {<<pre, hexdigest(k, m)>> : pre \in {Sha256Prefix, Sha1Prefix},
                                k \in {"s1", "s2"}, m \in PayloadBytes}
Signatures == {[present |-> FALSE, text |-> <<>>]} \cup
              {[present |-> TRUE, text |-> t] : t \in SignatureTexts}

NoVerify == [called |-> FALSE, payload |-> [present |-> FALSE, bytes |-> ""],
             signature |-> [present |-> FALSE, text |-> <<>>],
             exc |-> "none", ret |-> FALSE]

Verify ==
    /\ \E payload \in Payloads, signature \in Signatures :
        LET r == validate_webhook_signature(app_secret, payload, signature)
        IN  lastVerify' = [called |-> TRUE, payload |-> payload, signature |-> signature,
                           exc |-> r.exc, ret |-> r.ret]
    /\ UNCHANGED <<lastSend, send_count, app_secret, messages, window, now, next_id>>

ChannelQuiet ==
    /\ lastSend = NoSend
    /\ send_count = 0
    /\ app_secret = "s1"
    /\ lastVerify = NoVerify

\* one run makes at most MaxSends calls of the send operations
CanSend == send_count < MaxSends

SendText ==
    /\ CanSend
    /\ send_count' = send_count + 1
    /\ \E to \in SendTargets, sc \in Scripts(Attempts) :
        LET r == send_text_message(window, now, to, sc, next_id)
        IN  /\ lastSend' = [op |-> "text", to |-> to, store_up |-> sc[1] # "store_down",
                            granted |-> acquire(window, Bucket, now).granted,
                            has_media |-> FALSE, script |-> sc, exc |-> r.exc, ret |-> r.ret,
                            requests |-> r.requests, acquired |-> r.acquired,
                            waited |-> r.now - now, first_id |-> next_id + 1]
            /\ window' = r.window
            /\ now' = r.now
            /\ next_id' = next_id + Len(r.requests)
    /\ UNCHANGED <<messages, app_secret, lastVerify>>

SendTemplate ==
    /\ CanSend
    /\ send_count' = send_count + 1
    /\ \E to \in SendTargets, att \in Attempts :
        LET r == send_template_message(window, now, to, att, next_id + 1)
        IN  /\ lastSend' = [op |-> "template", to |-> to, store_up |-> att # "store_down",
                            granted |-> acquire(window, Bucket, now).granted,
                            has_media |-> FALSE, script |-> <<att>>, exc |-> r.exc,
                            ret |-> r.ret, requests |-> r.requests, acquired |-> r.acquired,
                            waited |-> r.slept, first_id |-> next_id + 1]
            /\ window' = r.window
            /\ now' = now + r.slept
            /\ next_id' = next_id + Len(r.requests)
    /\ UNCHANGED <<messages, app_secret, lastVerify>>

SendMedia ==
    /\ CanSend
    /\ send_count' = send_count + 1
    /\ \E to \in SendTargets, mt \in MediaTypes, has_url \in BOOLEAN, has_id \in BOOLEAN,
          att \in Attempts :
        LET r == send_media_message(window, now, to, mt, has_url, has_id, att, next_id + 1)
        IN  /\ lastSend' = [op |-> "media", to |-> to, store_up |-> att # "store_down",
                            granted |-> acquire(window, Bucket, now).granted,
                            has_media |-> has_url \/ has_id, script |-> <<att>>,
                            exc |-> r.exc, ret |-> r.ret, requests |-> r.requests,
                            acquired |-> r.acquired, waited |-> r.slept,
                            first_id |-> next_id + 1]
            /\ window' = r.window
            /\ now' = now + r.slept
            /\ next_id' = next_id + Len(r.requests)
    /\ UNCHANGED <<messages, app_secret, lastVerify>>


\* ------------------------------------------------------------------------
\* Conversation Aggregator (app/services/inbox.py)
\* ------------------------------------------------------------------------
VARIABLES
    conversations,   \* db.conversations, by user_id
    dollar_fields,   \* what the document store does with a $-prefixed field name in $set
    wpc,             \* position of each caller of save_message
    wmsg,            \* the message each caller is saving
    applied,         \* per user: _update_conversation calls that returned (all, inbound)
    wstatus,         \* the message_id each caller of update_message_status was given
    status_calls,    \* calls of update_message_status so far
    met_archived     \* whether _update_conversation has met an archived conversation

inboxVars == <<conversations, dollar_fields, wpc, wmsg, applied, wstatus, status_calls,
               met_archived>>

MaxStatusCalls == 1

MaxMessages == 3
MaxBody == 500

Callers == {"h1", "h2"}
UserA == strip(PhoneTen)
UserB == <<"4", "2">>
Users == {UserA, UserB}
Directions == {"inbound", "outbound"}
BodyLengths == {3, 501}

NoConversation ==
    [exists |-> FALSE, last_message |-> 0, last_message_timestamp |-> 0,
     last_message_direction |-> None, updated_at |-> 0, unread_count |-> 0,
     total_messages |-> 0, created_at |-> 0, is_archived |-> FALSE, labels |-> {},
     literal_inc |-> [unread_count |-> 0, total_messages |-> 0]]

NoInboxMessage == [user_id |-> <<>>, direction |-> None, body |-> 0, timestamp |-> 0]

NoInc == [unread_count |-> 0, total_messages |-> 0]

\* message.body[:500]
Truncate(len) == IF len > MaxBody THEN MaxBody ELSE len

\* lines 115-130: the "$inc" document is stored as a key of conversation_data
conversation_data(m, t) ==
    [user_id |-> m.user_id,
     last_message |-> Truncate(m.body),
     last_message_timestamp |-> m.timestamp,
     last_message_direction |-> m.direction,
     updated_at |-> t,
     dollar_inc |-> IF m.direction = "inbound"
                    THEN [unread_count |-> 1, total_messages |-> 1]
                    ELSE [unread_count |-> 0, total_messages |-> 1]]

\* lines 132-143: the update document; conversation_data, "$inc" key included,
\* is the argument of $set, and the update has no $inc operator of its own
update_document(m, t) ==
    [set         |-> conversation_data(m, t),
     inc         |-> NoInc,
     setOnInsert |-> [created_at |-> t, is_archived |-> FALSE, labels |-> {}]]

\* an upsert that counts a message as unread without counting it in the total
update_one_counts_unread(doc, upd, mode) ==
    IF upd.set.dollar_inc # NoInc /\ mode = "reject"
    THEN [exc |-> "WriteError", doc |-> doc]
    ELSE [exc |-> "none",
          doc |-> [doc EXCEPT
                     !.exists = TRUE,
                     !.last_message = upd.set.last_message,
                     !.last_message_timestamp = upd.set.last_message_timestamp,
                     !.last_message_direction = upd.set.last_message_direction,
                     !.updated_at = upd.set.updated_at,
                     !.unread_count = @ + upd.set.dollar_inc.unread_count]]

\* an upsert that writes the seed fields on every call
update_one_reseeds(doc, upd, mode) ==
    IF upd.set.dollar_inc # NoInc /\ mode = "reject"
    THEN [exc |-> "WriteError", doc |-> doc]
    ELSE [exc |-> "none",
          doc |-> [doc EXCEPT
                     !.exists = TRUE,
                     !.created_at = upd.setOnInsert.created_at,
                     !.is_archived = upd.setOnInsert.is_archived,
                     !.labels = upd.setOnInsert.labels,
                     !.last_message = upd.set.last_message,
                     !.last_message_timestamp = upd.set.last_message_timestamp,
                     !.last_message_direction = upd.set.last_message_direction,
                     !.updated_at = upd.set.updated_at,
                     !.literal_inc = upd.set.dollar_inc]]

\* conversations.update_one(filter, update, upsert=True) as the document store
\* applies it, atomically: $inc adds to the counters, $set assigns fields,
\* $setOnInsert only seeds a new document.  A $-prefixed field name inside
\* $set is either refused (the call raises) or stored as a literal field,
\* depending on the server; it is never read as an operator.
update_one(doc, upd, mode) ==
    IF upd.set.dollar_inc # NoInc /\ mode = "reject"
    THEN [exc |-> "WriteError", doc |-> doc]
    ELSE LET base == IF doc.exists THEN doc
                     ELSE [NoConversation EXCEPT
                             !.exists = TRUE,
                             !.created_at = upd.setOnInsert.created_at,
                             !.is_archived = upd.setOnInsert.is_archived,
                             !.labels = upd.setOnInsert.labels]
         IN  [exc |-> "none",
              doc |-> [base EXCEPT
                         !.last_message = upd.set.last_message,
                         !.last_message_timestamp = upd.set.last_message_timestamp,
                         !.last_message_direction = upd.set.last_message_direction,
                         !.updated_at = upd.set.updated_at,
                         !.literal_inc = upd.set.dollar_inc,
                         !.unread_count = @ + upd.inc.unread_count,
                         !.total_messages = @ + upd.inc.total_messages]]

\* _update_conversation: any exception is logged and swallowed
_update_conversation(doc, m, t, mode) == update_one(doc, update_document(m, t), mode).doc

InboxQuiet ==
    /\ conversations = [u \in Users |-> NoConversation]
    /\ dollar_fields = "reject"
    /\ wpc = [h \in Callers |-> "idle"]
    /\ wmsg = [h \in Callers |-> NoInboxMessage]
    /\ applied = [u \in Users |-> [all |-> 0, inbound |-> 0]]
    /\ wstatus = [h \in Callers |-> NoId]
    /\ status_calls = 0
    /\ met_archived = FALSE

InboxInit ==
    /\ conversations = [u \in Users |-> NoConversation]
    /\ dollar_fields \in {"reject", "literal"}
    /\ wpc = [h \in Callers |-> "idle"]
    /\ wmsg = [h \in Callers |-> NoInboxMessage]
    /\ applied = [u \in Users |-> [all |-> 0, inbound |-> 0]]
    /\ wstatus = [h \in Callers |-> NoId]
    /\ status_calls = 0
    /\ met_archived = FALSE

\* save_message, lines 15-18: the Message is built and inserted.  The caller
\* hands in an inbound message as received, without an identifier of the
\* channel, and an outbound one as sent, with the identifier the channel
\* assigned to it
SaveInsertFrom(h, users, lengths) ==
    /\ wpc[h] = "idle"
    /\ Len(messages) < MaxMessages
    /\ \E u \in users, d \in Directions, len \in lengths, o \in StoreOutcomes :
        LET m == [user_id |-> u, direction |-> d, body |-> len, timestamp |-> now]
        IN  /\ messages' = IF o = "lost" THEN messages
                           ELSE Append(messages,
                                  [user_id |-> u, direction |-> d, body |-> len,
                                   timestamp |-> now,
                                   status |-> IF d = "inbound" THEN "received" ELSE "sent",
                                   message_id |-> IF d = "inbound" THEN NoId ELSE next_id + 1,
                                   error_reason |-> None, idx |-> 0])
            /\ next_id' = IF d = "inbound" \/ o = "lost" THEN next_id ELSE next_id + 1
            /\ wmsg' = [wmsg EXCEPT ![h] = IF o = "ok" THEN m ELSE NoInboxMessage]
            /\ wpc' = [wpc EXCEPT ![h] = IF o = "ok" THEN "update" ELSE "idle"]
    /\ UNCHANGED <<conversations, dollar_fields, applied, wstatus, status_calls,
                   met_archived, window, now>>

SaveInsert(h) == SaveInsertFrom(h, Users, BodyLengths)

\* save_message, line 21: await self._update_conversation(message)
UpdateConversation(h) ==
    /\ wpc[h] = "update"
    /\ LET m == wmsg[h]
           u == m.user_id
       IN  /\ conversations' = [conversations EXCEPT
                                  ![u] = _update_conversation(@, m, now, dollar_fields)]
           /\ applied' = [applied EXCEPT
                            ![u] = [all |-> @.all + 1,
                                    inbound |-> @.inbound +
                                        (IF m.direction = "inbound" THEN 1 ELSE 0)]]
           /\ met_archived' = (met_archived \/ conversations[u].is_archived)
    /\ wpc' = [wpc EXCEPT ![h] = "idle"]
    /\ wmsg' = [wmsg EXCEPT ![h] = NoInboxMessage]
    /\ UNCHANGED <<dollar_fields, wstatus, status_calls, messages, window, now, next_id>>

\* update_message_status (lines 30-60)
Statuses == {"sent", "delivered", "read", "failed"}
ErrorReasons == {None, "undeliverable"}

\* the personalized body of a campaign message is a short text
TemplateBody == 3

\* the first document of db.messages with this message_id, 0 when there is none
Matching(msgs, id) ==
    IF \E k \in 1..Len(msgs) : msgs[k].message_id = id
    THEN CHOOSE k \in 1..Len(msgs) :
            /\ msgs[k].message_id = id
            /\ \A j \in 1..(k - 1) : msgs[j].message_id # id
    ELSE 0

\* lines 34-45: messages.update_one({"message_id": id}, {"$set": update_data})
update_status(msgs, id, status, error_reason) ==
    LET k == Matching(msgs, id)
    IN  IF k = 0 THEN msgs
        ELSE [msgs EXCEPT ![k].status = status,
                          ![k].error_reason = IF error_reason # None THEN error_reason ELSE @]

\* lines 34-47 and 56-60: the status is written; the call returns False when
\* nothing was modified or the store raised
UpdateMessageStatus(h) ==
    /\ wpc[h] = "idle"
    /\ status_calls < MaxStatusCalls
    /\ status_calls' = status_calls + 1
    /\ \E id \in 1..(next_id + 1), st \in Statuses, o \in StoreOutcomes :
       \E er \in (IF st = "failed" THEN ErrorReasons ELSE {None}) :
        /\ messages' = IF o = "lost" THEN messages ELSE update_status(messages, id, st, er)
        /\ IF o = "ok" /\ Matching(messages, id) # 0
           THEN /\ wpc' = [wpc EXCEPT ![h] = "refold"]
                /\ wstatus' = [wstatus EXCEPT ![h] = id]
           ELSE UNCHANGED <<wpc, wstatus>>
    /\ UNCHANGED <<conversations, dollar_fields, wmsg, applied, met_archived, window, now,
                   next_id>>

\* lines 49-54: the message is read back and handed to _update_conversation
StatusFold(h) ==
    /\ wpc[h] = "refold"
    /\ \E o \in StoreOutcomes :
        LET d == messages[Matching(messages, wstatus[h])]
            m == [user_id |-> d.user_id, direction |-> d.direction,
                  body |-> IF d.idx = 0 THEN d.body ELSE TemplateBody,
                  timestamp |-> d.timestamp]
        IN  /\ conversations' =
                  IF o = "ok"
                  THEN [conversations EXCEPT
                          ![d.user_id] = _update_conversation(@, m, now, dollar_fields)]
                  ELSE conversations
            /\ met_archived' =
                  (met_archived \/ (o = "ok" /\ conversations[d.user_id].is_archived))
    /\ wpc' = [wpc EXCEPT ![h] = "idle"]
    /\ wstatus' = [wstatus EXCEPT ![h] = NoId]
    /\ UNCHANGED <<dollar_fields, wmsg, applied, status_calls, messages, window, now, next_id>>

\* outside InboxService: a conversation is archived and labelled by its user
\* (ConversationUpdate carries is_archived and labels)
ArchivedLabels == {"vip"}

ExternalArchive(u) ==
    /\ conversations[u].exists
    /\ ~conversations[u].is_archived
    /\ conversations' = [conversations EXCEPT ![u].is_archived = TRUE,
                                              ![u].labels = ArchivedLabels]
    /\ UNCHANGED <<dollar_fields, wpc, wmsg, applied, wstatus, status_calls, met_archived,
                   messages, window, now, next_id>>

\* ------------------------------------------------------------------------
\* Notification Hub (app/websockets/connection_manager.py)
\* ------------------------------------------------------------------------
VARIABLES
    active_connections,  \* ConnectionManager.active_connections
    bpc,                 \* position of each running broadcast
    bevent,              \* the event each broadcast delivers
    bstart,              \* the subscriber set when the broadcast began
    bvisited,            \* connections the iteration has yielded
    bcur,                \* the connection of the send_json in flight
    dead_connections,    \* local of broadcast
    binterfered,         \* whether another coroutine changed the set meanwhile
    received,            \* per connection, the events delivered to it, in order
    next_event,          \* events broadcast so far
    accepted,            \* the handles connect has been called with
    last_pruned          \* the connections the latest finished broadcast discarded

hubVars == <<active_connections, bpc, bevent, bstart, bvisited, bcur, dead_connections,
             binterfered, received, next_event, accepted, last_pruned>>

MaxEvents == 2

Connections == {"w1", "w2", "w3"}
Broadcasters == {"b1", "b2"}
NoConnection == "none"

HubInit ==
    /\ active_connections = {}
    /\ bpc = [b \in Broadcasters |-> "idle"]
    /\ bevent = [b \in Broadcasters |-> 0]
    /\ bstart = [b \in Broadcasters |-> {}]
    /\ bvisited = [b \in Broadcasters |-> {}]
    /\ bcur = [b \in Broadcasters |-> NoConnection]
    /\ dead_connections = [b \in Broadcasters |-> {}]
    /\ binterfered = [b \in Broadcasters |-> FALSE]
    /\ received = [c \in Connections |-> <<>>]
    /\ next_event = 0
    /\ accepted = {}
    /\ last_pruned = {}

Running(b) == bpc[b] \in {"iter", "sending"}

\* the event loop runs one coroutine at a time: a broadcast between two of
\* its awaits holds it, and nothing else runs until its next send suspends
\* it or it returns
LoopFree == \A b \in Broadcasters : bpc[b] # "iter"

\* the broadcasts, other than b, that a change of the set hits while they run
Disturb(except, changed) ==
    [b \in Broadcasters |->
        IF b # except /\ Running(b) /\ changed THEN TRUE ELSE binterfered[b]]

\* connect: websocket.accept(), then the handle is added; a WebSocket object
\* is accepted once in its life
Connect(c) ==
    /\ LoopFree
    /\ c \notin accepted
    /\ accepted' = accepted \cup {c}
    /\ active_connections' = active_connections \cup {c}
    /\ binterfered' = Disturb(NoConnection, TRUE)
    /\ UNCHANGED <<bpc, bevent, bstart, bvisited, bcur, dead_connections, received,
                   next_event, last_pruned>>

\* disconnect: the handle is discarded
Disconnect(c) ==
    /\ LoopFree
    /\ c \in active_connections
    /\ active_connections' = active_connections \ {c}
    /\ binterfered' = Disturb(NoConnection, TRUE)
    /\ UNCHANGED <<bpc, bevent, bstart, bvisited, bcur, dead_connections, received,
                   next_event, accepted, last_pruned>>

\* broadcast, lines 26-30: nothing to do on an empty set, else the loop starts
BroadcastStart(b) ==
    /\ LoopFree
    /\ bpc[b] \in {"idle", "done", "error"}
    /\ next_event < MaxEvents
    /\ next_event' = next_event + 1
    /\ IF active_connections = {}
       THEN /\ bpc' = [bpc EXCEPT ![b] = "done"]
            /\ UNCHANGED <<bevent, bstart>>
       ELSE /\ bpc' = [bpc EXCEPT ![b] = "iter"]
            /\ bevent' = [bevent EXCEPT ![b] = next_event + 1]
            /\ bstart' = [bstart EXCEPT ![b] = active_connections]
    /\ UNCHANGED <<active_connections, bvisited, bcur, dead_connections, binterfered,
                   received, accepted, last_pruned>>

\* the broadcast returns or raises: its locals are gone
Leave(b, to) ==
    /\ bpc' = [bpc EXCEPT ![b] = to]
    /\ bevent' = [bevent EXCEPT ![b] = 0]
    /\ bstart' = [bstart EXCEPT ![b] = {}]
    /\ bvisited' = [bvisited EXCEPT ![b] = {}]
    /\ dead_connections' = [dead_connections EXCEPT ![b] = {}]

\* the slot of a handle in the hash table of the set: a handle is added once
\* and three handles never make the table grow, so a handle keeps its slot
TableSlot(c) == CASE c = "w1" -> 1 [] c = "w2" -> 2 [] OTHER -> 3

\* the handles the iterator of b has still to yield: those in the slots
\* after the ones it has passed
Remaining(b) ==
    {c \in active_connections : \A v \in bvisited[b] : TableSlot(c) > TableSlot(v)}

\* line 32, the for statement asks the set iterator for the next connection:
\* the iterator raises RuntimeError when the set changed size, else it
\* yields the handle of the next occupied slot
BroadcastNext(b) ==
    /\ bpc[b] = "iter"
    /\ LET rest == Remaining(b)
           same == Cardinality(active_connections) = Cardinality(bstart[b])
       IN  \/ /\ ~same
              /\ Leave(b, "error")
              /\ binterfered' = [binterfered EXCEPT ![b] = FALSE]
              /\ UNCHANGED <<active_connections, bcur, last_pruned>>
           \/ /\ same
              /\ \E c \in rest :
                    /\ \A d \in rest : TableSlot(c) <= TableSlot(d)
                    /\ bcur' = [bcur EXCEPT ![b] = c]
                    /\ bpc' = [bpc EXCEPT ![b] = "sending"]
              /\ UNCHANGED <<active_connections, binterfered, bevent, bstart, bvisited,
                             dead_connections, last_pruned>>
           \* lines 40-43: the loop is over, the dead connections are discarded
           \/ /\ same
              /\ rest = {}
              /\ active_connections' = active_connections \ dead_connections[b]
              /\ last_pruned' = dead_connections[b]
              /\ binterfered' = [Disturb(b, active_connections' # active_connections)
                                    EXCEPT ![b] = FALSE]
              /\ Leave(b, "done")
              /\ UNCHANGED bcur
    /\ UNCHANGED <<received, next_event, accepted>>

\* lines 36-38: send_json raised, the connection is remembered as dead
SendFailed_discard(b) ==
    /\ active_connections' = active_connections \ {bcur[b]}
    /\ binterfered' = Disturb(b, bcur[b] \in active_connections)
    /\ UNCHANGED <<dead_connections, received>>

SendFailed(b) ==
    /\ dead_connections' = [dead_connections EXCEPT ![b] = @ \cup {bcur[b]}]
    /\ UNCHANGED <<active_connections, binterfered, received>>

\* lines 33-35: send_json returned
SendSucceeded(b) ==
    /\ received' = [received EXCEPT ![bcur[b]] = Append(@, bevent[b])]
    /\ UNCHANGED <<active_connections, binterfered, dead_connections>>

\* the awaited connection.send_json(message) completes
BroadcastSent(b) ==
    /\ LoopFree
    /\ bpc[b] = "sending"
    /\ \/ SendSucceeded(b)
       \/ SendFailed(b)
    /\ bvisited' = [bvisited EXCEPT ![b] = @ \cup {bcur[b]}]
    /\ bcur' = [bcur EXCEPT ![b] = NoConnection]
    /\ bpc' = [bpc EXCEPT ![b] = "iter"]
    /\ UNCHANGED <<bevent, bstart, next_event, accepted, last_pruned>>

\* ------------------------------------------------------------------------
\* Cache (app/services/mongodb_cache.py)
\* ------------------------------------------------------------------------
VARIABLES
    cache,           \* the cache collection, by _id
    lastGet,         \* the latest get: key, returned value, state of the entry read
    lastSet          \* the latest set: key, how it ended, the entry before and after

cacheVars == <<cache, lastGet, lastSet>>

MaxTtl == 1

Keys == {"k1", "k2"}
Values == {"v1", "v2"}
Ttls == 0..MaxTtl
CacheOutcomes == {"ok", "raise"}

NoDoc == [present |-> FALSE, value |-> None, expires_at |-> 0]
NoGet == [key |-> None, value |-> None, present |-> FALSE, stored |-> None,
          expires_at |-> 0, at |-> 0, failed |-> FALSE, exc |-> "none"]
NoSet == [key |-> None, failed |-> FALSE, exc |-> "none", before |-> NoDoc, after |-> NoDoc]

CacheInit ==
    /\ cache = [k \in Keys |-> NoDoc]
    /\ lastGet = NoGet
    /\ lastSet = NoSet

\* a get without its except clause
get_unguarded(coll, key, o) ==
    IF o = "raise" THEN [exc |-> "PyMongoError", value |-> None]
    ELSE [exc |-> "none", value |-> IF coll[key].present THEN coll[key].value ELSE None]

\* get: doc["value"] if doc and "value" in doc else None; an exception of
\* find_one is printed and None is returned
get(coll, key, o) ==
    IF o = "raise" THEN [exc |-> "none", value |-> None]
    ELSE [exc |-> "none", value |-> IF coll[key].present THEN coll[key].value ELSE None]

\* a set without its except clause
set_unguarded(coll, key, value, ttl_seconds, t, o) ==
    IF o = "raise" THEN [exc |-> "PyMongoError", coll |-> coll]
    ELSE [exc |-> "none",
          coll |-> [coll EXCEPT ![key] = [present |-> TRUE, value |-> value,
                                          expires_at |-> t + ttl_seconds]]]

\* set: upsert of value and expires_at = time.time() + ttl_seconds; an
\* exception of update_one is printed and the call returns
set(coll, key, value, ttl_seconds, t, o) ==
    IF o = "raise" THEN [exc |-> "none", coll |-> coll]
    ELSE [exc |-> "none",
          coll |-> [coll EXCEPT ![key] = [present |-> TRUE, value |-> value,
                                          expires_at |-> t + ttl_seconds]]]

CacheGet ==
    /\ \E k \in Keys, o \in CacheOutcomes :
        LET r == get(cache, k, o)
        IN  lastGet' = [key |-> k, value |-> r.value, present |-> cache[k].present,
                        stored |-> cache[k].value, expires_at |-> cache[k].expires_at,
                        at |-> now, failed |-> o = "raise", exc |-> r.exc]
    /\ UNCHANGED <<cache, lastSet, messages, window, now, next_id>>

CacheSet ==
    /\ \E k \in Keys, v \in Values, ttl \in Ttls, o \in CacheOutcomes :
        LET r == set(cache, k, v, ttl, now, o)
        IN  /\ cache' = r.coll
            /\ lastSet' = [key |-> k, failed |-> o = "raise", exc |-> r.exc,
                            before |-> cache[k], after |-> r.coll[k]]
    /\ UNCHANGED <<lastGet, messages, window, now, next_id>>


\* ------------------------------------------------------------------------
\* Specifications: one per service, the other services at rest
\* ------------------------------------------------------------------------
vars == <<dispatchVars, sharedVars, rateVars, channelVars, inboxVars, hubVars, cacheVars>>

SharedInit ==
    /\ messages = <<>>
    /\ window = << >>
    /\ now = 0
    /\ next_id = 0

\* the bucket is shared with other senders: the current slot may be nearly or
\* entirely used up when a send begins
UsedWindows == { << >> } \cup { [k \in {<<Bucket, 0>>} |-> n] : n \in {max_requests - 1, max_requests} }

SharedInitUsed ==
    /\ messages = <<>>
    /\ window \in UsedWindows
    /\ now = 0
    /\ next_id = 0

DispatchQuiet ==
    /\ DispatchInit
    /\ contacts = <<>>
    /\ message_template = "named"
    /\ has_callback = FALSE

\* -- the Campaign Dispatcher
InitDispatch ==
    /\ DispatchInit /\ SharedInitUsed
    /\ RateQuiet /\ ChannelQuiet /\ InboxQuiet /\ HubInit /\ CacheInit

restOfDispatch == <<rateVars, channelVars, inboxVars, hubVars, cacheVars>>

NextDispatch ==
    \/ CreateCampaign /\ UNCHANGED restOfDispatch
    \/ ProcessContact /\ UNCHANGED restOfDispatch
    \/ SaveMessage /\ UNCHANGED restOfDispatch
    \/ ProgressCallback /\ UNCHANGED restOfDispatch
    \/ DelayBetweenMessages /\ UNCHANGED restOfDispatch
    \/ UpdateCampaign /\ UNCHANGED restOfDispatch

SpecDispatch == InitDispatch /\ [][NextDispatch]_vars

\* -- the Campaign Dispatcher with the dry run of its contact list
NextValidate ==
    \/ NextDispatch
    \/ ValidateContacts /\ UNCHANGED restOfDispatch

SpecValidate == InitDispatch /\ [][NextValidate]_vars

\* -- the Rate Limiter
InitRate ==
    /\ DispatchQuiet /\ SharedInit
    /\ RateQuiet /\ ChannelQuiet /\ InboxQuiet /\ HubInit /\ CacheInit

restOfRate == <<dispatchVars, channelVars, inboxVars, hubVars, cacheVars>>

NextRate ==
    \/ Acquire /\ UNCHANGED restOfRate
    \/ SlotAdvances /\ UNCHANGED <<restOfRate, rateVars>>

SpecRate == InitRate /\ [][NextRate]_vars

\* -- the Rate Limiter under concurrent callers: the slot has been used by
\* earlier sends up to a few grants below the ceiling
EarlierGrants == max_requests - MaxOver

InitRateConcurrent ==
    /\ DispatchQuiet /\ ChannelQuiet /\ InboxQuiet /\ HubInit /\ CacheInit
    /\ messages = <<>>
    /\ now = 0
    /\ next_id = 0
    /\ window = [k \in {<<Bucket, 0>>} |-> EarlierGrants]
    /\ acquireCalls = [s \in Slots |-> IF s = 0 THEN EarlierGrants ELSE 0]
    /\ acquireGrants = [s \in Slots |-> IF s = 0 THEN EarlierGrants ELSE 0]
    /\ lastAcquire = [slot |-> 0, nth |-> EarlierGrants, granted |-> TRUE]
    /\ rpc = [p \in RateCallers |-> "idle"]
    /\ rtime = [p \in RateCallers |-> 0]
    /\ rseen = [p \in RateCallers |-> << >>]
    /\ rres = [p \in RateCallers |-> "none"]

NextRateConcurrent ==
    \/ \E p \in RateCallers : AcquireCalled(p) /\ UNCHANGED restOfRate
    \/ \E p \in RateCallers : AcquireApplied(p) /\ UNCHANGED restOfRate

SpecRateConcurrent == InitRateConcurrent /\ [][NextRateConcurrent]_vars

\* -- the Channel Client
InitChannel ==
    /\ DispatchQuiet /\ SharedInitUsed
    /\ RateQuiet /\ ChannelQuiet /\ InboxQuiet /\ HubInit /\ CacheInit

restOfChannel == <<dispatchVars, rateVars, inboxVars, hubVars, cacheVars>>

NextChannel ==
    \/ SendText /\ UNCHANGED restOfChannel
    \/ SendTemplate /\ UNCHANGED restOfChannel
    \/ SendMedia /\ UNCHANGED restOfChannel
    \/ SlotAdvances /\ UNCHANGED <<restOfChannel, channelVars>>

SpecChannel == InitChannel /\ [][NextChannel]_vars

\* -- webhook signatures, under every configuration of the secret
InitVerify ==
    /\ DispatchQuiet /\ SharedInit
    /\ RateQuiet /\ InboxQuiet /\ HubInit /\ CacheInit
    /\ lastSend = NoSend
    /\ send_count = 0
    /\ app_secret \in Secrets
    /\ lastVerify = NoVerify

NextVerify ==
    \/ Verify /\ UNCHANGED restOfChannel
    \/ SlotAdvances /\ UNCHANGED <<restOfChannel, channelVars>>

SpecVerify == InitVerify /\ [][NextVerify]_vars

\* -- the Conversation Aggregator
InitInbox ==
    /\ DispatchQuiet /\ SharedInit
    /\ RateQuiet /\ ChannelQuiet /\ InboxInit /\ HubInit /\ CacheInit

restOfInbox == <<dispatchVars, rateVars, channelVars, hubVars, cacheVars>>

NextInbox ==
    \/ \E h \in Callers : SaveInsert(h) /\ UNCHANGED restOfInbox
    \/ \E h \in Callers : UpdateConversation(h) /\ UNCHANGED restOfInbox
    \/ SlotAdvances /\ UNCHANGED <<restOfInbox, inboxVars>>

SpecInbox == InitInbox /\ [][NextInbox]_vars

\* -- the message store with its writers: a campaign and a caller of
\* update_message_status, interleaved
StoreContact == [phone_key |-> "str", phone |-> PhoneTen, has_name |-> FALSE]
StoreContactLists == UNION { [1..n -> {StoreContact}] : n \in 1..MaxContacts }
StoreCallers == {"h1"}

InitStore ==
    /\ DispatchInit /\ SharedInit
    /\ contacts \in StoreContactLists
    /\ message_template = "named"
    /\ RateQuiet /\ ChannelQuiet /\ InboxInit /\ HubInit /\ CacheInit

restOfStoreDispatch == <<rateVars, channelVars, inboxVars, hubVars, cacheVars>>
restOfStoreInbox == <<dispatchVars, rateVars, channelVars, hubVars, cacheVars>>

NextStore ==
    \/ CreateCampaign /\ UNCHANGED restOfStoreDispatch
    \/ ProcessContact /\ UNCHANGED restOfStoreDispatch
    \/ SaveMessage /\ UNCHANGED restOfStoreDispatch
    \/ ProgressCallback /\ UNCHANGED restOfStoreDispatch
    \/ DelayBetweenMessages /\ UNCHANGED restOfStoreDispatch
    \/ UpdateCampaign /\ UNCHANGED restOfStoreDispatch
    \/ \E h \in StoreCallers : UpdateMessageStatus(h) /\ UNCHANGED restOfStoreInbox
    \/ \E h \in StoreCallers : StatusFold(h) /\ UNCHANGED restOfStoreInbox

SpecStore == InitStore /\ [][NextStore]_vars

\* -- one caller of InboxService and one counterparty: short messages are
\* saved, their status is updated, the conversation is archived from outside
ShortBodies == {len \in BodyLengths : len <= MaxBody}
MaxSaved == 2

InitConversation ==
    /\ DispatchQuiet /\ SharedInit
    /\ RateQuiet /\ ChannelQuiet /\ InboxInit /\ HubInit /\ CacheInit

NextConversation ==
    \/ \E h \in StoreCallers :
          /\ Len(messages) < MaxSaved
          /\ SaveInsertFrom(h, {UserA}, ShortBodies)
          /\ UNCHANGED restOfInbox
    \/ \E h \in StoreCallers : UpdateConversation(h) /\ UNCHANGED restOfInbox
    \/ \E h \in StoreCallers : UpdateMessageStatus(h) /\ UNCHANGED restOfInbox
    \/ \E h \in StoreCallers : StatusFold(h) /\ UNCHANGED restOfInbox
    \/ \E u \in Users : ExternalArchive(u) /\ UNCHANGED restOfInbox
    \/ SlotAdvances /\ UNCHANGED <<restOfInbox, inboxVars>>

SpecConversation == InitConversation /\ [][NextConversation]_vars

\* -- the Notification Hub: one broadcast at a time, while handles connect
\* and disconnect
Alone(b) == \A o \in Broadcasters \ {b} : ~Running(o)

InitHub ==
    /\ DispatchQuiet /\ SharedInit
    /\ RateQuiet /\ ChannelQuiet /\ InboxQuiet /\ HubInit /\ CacheInit

restOfHub == <<dispatchVars, sharedVars, rateVars, channelVars, inboxVars, cacheVars>>

NextHub ==
    \/ \E c \in Connections : Connect(c) /\ UNCHANGED restOfHub
    \/ \E c \in Connections : Disconnect(c) /\ UNCHANGED restOfHub
    \/ \E b \in Broadcasters : Alone(b) /\ BroadcastStart(b) /\ UNCHANGED restOfHub
    \/ \E b \in Broadcasters : BroadcastNext(b) /\ UNCHANGED restOfHub
    \/ \E b \in Broadcasters : BroadcastSent(b) /\ UNCHANGED restOfHub

SpecHub == InitHub /\ [][NextHub]_vars

\* -- the Notification Hub under concurrent broadcasts: the handles are
\* connected, then broadcasts overlap at their awaited sends
NextHubConcurrent ==
    \/ \E c \in Connections :
          (\A b \in Broadcasters : ~Running(b)) /\ Connect(c) /\ UNCHANGED restOfHub
    \/ \E b \in Broadcasters : BroadcastStart(b) /\ UNCHANGED restOfHub
    \/ \E b \in Broadcasters : BroadcastNext(b) /\ UNCHANGED restOfHub
    \/ \E b \in Broadcasters : BroadcastSent(b) /\ UNCHANGED restOfHub

SpecHubConcurrent == InitHub /\ [][NextHubConcurrent]_vars

\* -- the Cache
InitCache ==
    /\ DispatchQuiet /\ SharedInit
    /\ RateQuiet /\ ChannelQuiet /\ InboxQuiet /\ HubInit /\ CacheInit

restOfCache == <<dispatchVars, rateVars, channelVars, inboxVars, hubVars>>

NextCache ==
    \/ CacheGet /\ UNCHANGED restOfCache
    \/ CacheSet /\ UNCHANGED restOfCache
    \/ SlotAdvances /\ UNCHANGED <<restOfCache, cacheVars>>

SpecCache == InitCache /\ [][NextCache]_vars


\* ------------------------------------------------------------------------
\* Properties
\* ------------------------------------------------------------------------
InSuccessful(i) == Cardinality({k \in 1..Len(successful) : successful[k] = i})
InFailed(i) == Cardinality({k \in 1..Len(failed) : failed[k].idx = i})
SendsFor(i) == {k \in 1..Len(sendLog) : sendLog[k].idx = i}
Last(seq) == seq[Len(seq)]

\* C1: when send_bulk_messages completes, len(successful) + len(failed) equals
\* the number of contacts, every recipient is in exactly one of the two lists,
\* and the counters stored in the Campaign record are the lengths of the lists.
C1_CountsPartitionRecipients ==
    pc = "done" =>
        /\ Len(successful) + Len(failed) = total
        /\ \A i \in 1..total : InSuccessful(i) + InFailed(i) = 1
        /\ campaign.successful_count = Len(successful)
        /\ campaign.failed_count = Len(failed)

\* C2: a recipient whose phone is missing, empty, or has fewer than 10 digits
\* once the non-digits are stripped ends in failed with a validation reason,
\* and neither the Channel Client nor the Rate Limiter is used for it.
ValidationReasons == {"No phone number", "Invalid phone number"}

InvalidPhone(contact) ==
    \/ contact.phone_key = "missing"
    \/ contact.phone_key = "str" /\ Len(FilterDigits(contact.phone)) < 10

C2_InvalidPhoneNeverReachesChannel ==
    pc = "done" =>
        \A i \in 1..total :
            InvalidPhone(contacts[i]) =>
                /\ \E k \in 1..Len(failed) :
                      failed[k].idx = i /\ failed[k].error \in ValidationReasons
                /\ SendsFor(i) = {}

\* C4: when the channel fails transiently on attempts 1 and 2 of a send and
\* answers 200 on attempt 3, the send returns success with the identifier
\* assigned on attempt 3, and the Message is persisted as sent with it.
Transient == {"timeout", "connerr", "s500"}

C4_ThirdAttemptSucceeds ==
    [][ ( /\ pc = "persist"
          /\ script[1] \in Transient /\ script[2] \in Transient /\ script[3] = "s200"
          /\ Last(sendLog).requests # <<>> )
        => ( /\ result.success
             /\ result.message_id = Last(sendLog).requests[1].id + 2
             /\ pc' = "progress" =>
                  /\ Last(messages').status = "sent"
                  /\ Last(messages').message_id = result.message_id ) ]_vars

\* C10: a failure while one recipient is processed (a failure result or an
\* exception of the channel call, an exception of the insert of the Message,
\* an exception of the personalization) is recorded as a failure of that
\* recipient alone: no exception leaves the loop, every recipient is recorded,
\* a recipient without fault is successful, and the Campaign record is
\* finalized once send_bulk_messages returns.
RecipientFaults == {"channel_result", "channel_exception", "persist", "personalize"}

C10_FailureStaysWithRecipient ==
    /\ pc = "raised" => raised_by \in {"_create_campaign", "_update_campaign"}
    /\ \A i \in 1..total :
          (i < index /\ faults[i] \in RecipientFaults) =>
              InFailed(i) >= 1 /\ InSuccessful(i) = 0
    /\ \A i \in 1..total :
          (i < index /\ faults[i] = "none") => InSuccessful(i) = 1 /\ InFailed(i) = 0
    /\ pc = "done" =>
          /\ index = total + 1
          /\ \A i \in 1..total : InSuccessful(i) + InFailed(i) >= 1
          /\ campaign.exists /\ campaign.updates = 1
          /\ campaign.status \in {"completed", "failed"}

\* a campaign of two whose first recipient could not be persisted and whose
\* second recipient was sent afterwards
C10_Witness ==
    /\ pc = "done"
    /\ total = 2
    /\ faults[1] = "persist" /\ InFailed(1) = 1
    /\ faults[2] = "none" /\ InSuccessful(2) = 1


\* C3: once the callers have applied n messages of a counterparty, k of them
\* inbound, in any interleaving, its conversation has total_messages = n and
\* unread_count = k.
C3_NoLostUpdate ==
    (\A h \in Callers : wpc[h] = "idle") =>
        \A u \in Users :
            applied[u].all > 0 =>
                /\ conversations[u].exists
                /\ conversations[u].total_messages = applied[u].all
                /\ conversations[u].unread_count = applied[u].inbound

\* C5: in one time slot the first max_requests calls of acquire are granted
\* and every later call of the slot is denied, whatever was counted for the
\* slots before it.
Min(a, b) == IF a < b THEN a ELSE b

C5_CeilingPerSlot ==
    /\ \A s \in Slots : acquireGrants[s] = Min(acquireCalls[s], max_requests)
    /\ lastAcquire.nth > 0 => (lastAcquire.granted <=> lastAcquire.nth <= max_requests)

\* slot 0 was used up and over-asked, and a call in slot 1 has been granted
C5_Witness ==
    /\ acquireCalls[0] > max_requests
    /\ lastAcquire.slot = 1
    /\ lastAcquire.granted

\* C6: when a broadcast that nothing else disturbs returns, every handle whose
\* delivery failed is out of the subscriber set, every other handle of the set
\* received the event exactly once and is still subscribed; a failed delivery
\* never ends the broadcast early.
Deliveries(seq, e) == Cardinality({k \in 1..Len(seq) : seq[k] = e})

C6_BroadcastPrunesOnlyFailed ==
    [][ \A b \in Broadcasters :
          (bpc[b] = "iter" /\ ~binterfered[b]) =>
              /\ bpc'[b] # "error"
              /\ bpc'[b] = "done" =>
                    /\ bvisited[b] = bstart[b]
                    /\ dead_connections[b] \cap active_connections' = {}
                    /\ \A c \in bstart[b] \ dead_connections[b] :
                          /\ c \in active_connections'
                          /\ Deliveries(received'[c], bevent[b]) = 1
                    /\ \A c \in dead_connections[b] :
                          Deliveries(received'[c], bevent[b]) = 0 ]_vars

\* three subscribers, the first broadcast has returned: one was discarded
\* without the event, the other two hold it
C6_Witness ==
    /\ next_event = 1
    /\ \A b \in Broadcasters : ~Running(b)
    /\ accepted = Connections
    /\ Cardinality(last_pruned) = 1
    /\ Cardinality(active_connections) = 2
    /\ \A c \in Connections :
          received[c] = IF c \in active_connections THEN <<1>> ELSE <<>>

\* C7: applying an outbound message leaves unread_count as it was and adds
\* exactly 1 to total_messages.
C7_OutboundKeepsUnread ==
    [][ \A h \in Callers :
          (wpc[h] = "update" /\ wpc'[h] = "idle" /\ wmsg[h].direction = "outbound") =>
              /\ conversations'[wmsg[h].user_id].unread_count
                    = conversations[wmsg[h].user_id].unread_count
              /\ conversations'[wmsg[h].user_id].total_messages
                    = conversations[wmsg[h].user_id].total_messages + 1 ]_vars

\* C8: a get of a key whose stored expiry instant has passed returns absent;
\* a get before the expiry returns the stored value.
C8_ExpiredEntryReadsAbsent ==
    (lastGet.key # None /\ ~lastGet.failed /\ lastGet.present) =>
        IF lastGet.at > lastGet.expires_at
        THEN lastGet.value = None
        ELSE lastGet.value = lastGet.stored

Identified == {"sent", "delivered", "read"}

C11_IdentifierIffDelivered ==
    \A k \in 1..Len(messages) :
        (messages[k].message_id # NoId) <=> (messages[k].status \in Identified)

\* C12: once the callers are back, the total_messages of every counterparty is
\* the number of its Message records save_message has folded into the
\* conversation; status updates of existing Messages add nothing.
C12_TotalCountsFoldedMessages ==
    (\A h \in StoreCallers : wpc[h] = "idle") =>
        \A u \in Users :
            conversations[u].total_messages = applied[u].all

\* C16: _update_conversation writes is_archived, labels and created_at only
\* when it creates the conversation; on an existing conversation it leaves
\* them as they are, values set from outside included.
Folding(h) == wpc[h] \in {"update", "refold"} /\ wpc'[h] = "idle"

C16_SeedFieldsInsertOnly ==
    [][ (\E h \in Callers : Folding(h)) =>
          \A u \in Users :
             IF conversations[u].exists
             THEN /\ conversations'[u].is_archived = conversations[u].is_archived
                  /\ conversations'[u].labels = conversations[u].labels
                  /\ conversations'[u].created_at = conversations[u].created_at
             ELSE conversations'[u].exists =>
                  /\ conversations'[u].is_archived = FALSE
                  /\ conversations'[u].labels = {}
                  /\ conversations'[u].created_at = now ]_vars

\* a conversation created in slot 0, archived from outside, and updated by a
\* later message in slot 1: it is still archived and labelled
C16_Witness ==
    /\ met_archived
    /\ \E u \in Users :
          /\ conversations[u].is_archived
          /\ conversations[u].labels = ArchivedLabels
          /\ conversations[u].created_at = 0
          /\ conversations[u].updated_at = 1

\* C13: a send that the channel answers with a 4xx other than 429 issues
\* exactly one request, does not wait, and returns the failure with the
\* error message and the error code the channel gave.
C13_NonTransientNotRetried ==
    ( /\ lastSend.op # "none"
      /\ lastSend.store_up /\ lastSend.granted
      /\ lastSend.op = "media" => lastSend.has_media
      /\ lastSend.script[1] = "s400" ) =>
        /\ Len(lastSend.requests) = 1
        /\ lastSend.exc = "none"
        /\ lastSend.waited = 0
        /\ lastSend.ret = Failure("Bad request", 400)

\* a text send through send_text_message, the retrying operation, refused
\* with a 400 by the channel
C13_Witness ==
    /\ lastSend.op = "text"
    /\ lastSend.granted
    /\ lastSend.script[1] = "s400"
    /\ Len(lastSend.requests) = 1
    /\ lastSend.ret.error_code = 400

\* C14: a send of the dispatcher issues at most stop_after_attempt requests
\* (none when the Rate Limiter denies it);
\* unless the store of the Rate Limiter fails it returns a result; and a send
\* on which the channel fails transiently at every attempt returns a failure,
\* which is persisted as a failed Message of that recipient and puts the
\* recipient in failed, without an exception leaving the loop.
AllTransient(sc) == sc # NoScript /\ \A k \in 1..Len(sc) : sc[k] \in Transient

C14_BoundedAttemptsRecordedFailure ==
    [][ /\ \A k \in 1..Len(sendLog') :
              /\ Len(sendLog'[k].requests) <= stop_after_attempt
              /\ sendLog'[k].attempts <= stop_after_attempt
        /\ (sendLog' # sendLog /\ script'[1] # "store_down") => pc' = "persist"
        /\ (sendLog' # sendLog /\ AllTransient(script')) =>
              /\ ~result'.success
              /\ Last(sendLog').requests = <<>> => result' = RateLimited
        /\ (pc = "persist" /\ AllTransient(script)) =>
              /\ pc' = "progress" =>
                    /\ Last(messages').idx = index
                    /\ Last(messages').status = "failed"
                    /\ Last(failed').idx = index
                    /\ successful' = successful
              /\ pc' # "progress" => (pc' = "loop" /\ Last(failed').idx = index)
        /\ pc' = "raised" => raised_by' \in {"_create_campaign", "_update_campaign"}
      ]_vars

\* the campaign has returned; its only recipient met a timeout and is
\* recorded as a failed Message with that reason
C14_Witness ==
    /\ pc = "done"
    /\ total = 1
    /\ Len(sendLog) = 1
    /\ sendLog[1].requests # <<>>
    /\ sendLog[1].requests[1].resp = "timeout"
    /\ Len(messages) = 1
    /\ messages[1].status = "failed"
    /\ messages[1].error_reason = "Request timeout"
    /\ InFailed(1) = 1

\* C15: validate_webhook_signature returns true exactly when the secret is
\* configured and the signature is "sha256=" followed by the HMAC-SHA256 of
\* the payload under that secret; for every other signature, an empty or
\* absent one included, it returns false, and it never raises.
ExpectedSignature(secret, payload) == <<Sha256Prefix, hexdigest(secret, hmac_msg(payload))>>

C15_SignatureVerifies ==
    lastVerify.called =>
        /\ lastVerify.exc = "none"
        /\ lastVerify.ret <=>
              ( /\ app_secret \notin {None, ""}
                /\ lastVerify.signature.present
                /\ lastVerify.signature.text = ExpectedSignature(app_secret, lastVerify.payload) )

\* C17: the recipients of a campaign are attempted strictly in input order and
\* one at a time: the Channel Client is called for recipient i before it is
\* called for any later recipient, a recipient is not sent to before the
\* Message of every earlier one is written, and the Messages are persisted in
\* the order of the input.
C17_RecipientsInInputOrder ==
    /\ \A k, l \in 1..Len(sendLog) : k < l => sendLog[k].idx < sendLog[l].idx
    /\ \A k, l \in 1..Len(messages) : k < l => messages[k].idx < messages[l].idx
    /\ \A k \in 1..Len(sendLog) : sendLog[k].idx <= index
    /\ \A m \in 1..Len(messages) :
          /\ SendsFor(messages[m].idx) # {}
          /\ messages[m].idx <= Last(sendLog).idx
          /\ pc = "persist" => messages[m].idx < index

\* a campaign of two recipients has returned: both were sent to and both
\* Messages are stored, the first recipient first
C17_Witness ==
    /\ pc = "done"
    /\ total = 2
    /\ Len(sendLog) = 2
    /\ sendLog[1].idx = 1
    /\ sendLog[2].idx = 2
    /\ Len(messages) = 2
    /\ messages[1].idx = 1
    /\ messages[2].idx = 2

\* C18: the Campaign record is created with status running before the first
\* recipient is processed and stays running through the loop; it is updated
\* exactly once, after every recipient has been attempted exactly once, to a
\* terminal status with the final counters; a dispatch that stops inside the
\* loop leaves the record running.
Processed(i) == InSuccessful(i) + InFailed(i) >= 1

C18_CampaignFinalizedOnce ==
    /\ pc \in {"loop", "persist", "progress", "sleep"} =>
          /\ campaign.exists
          /\ campaign.status = "running"
          /\ campaign.total_contacts = total
    /\ (sendLog # <<>> \/ successful # <<>> \/ failed # <<>>) => campaign.exists
    /\ (campaign.exists /\ campaign.updates = 0) => campaign.status = "running"
    /\ campaign.updates <= 1
    /\ pc = "done" => campaign.updates = 1
    /\ campaign.updates = 1 =>
          /\ index = total + 1
          /\ pc \in {"done", "raised"}
          /\ \A i \in 1..total : Processed(i) /\ Cardinality(SendsFor(i)) <= 1
          /\ campaign.status \in {"completed", "failed"}
          /\ campaign.successful_count = Len(successful)
          /\ campaign.failed_count = Len(failed)

\* a campaign of two recipients has returned, one sent and one failed, and
\* its record was updated once to completed with those counters
C18_Witness ==
    /\ pc = "done"
    /\ total = 2
    /\ Len(sendLog) = 2
    /\ campaign.updates = 1
    /\ campaign.status = "completed"
    /\ campaign.successful_count = 1
    /\ campaign.failed_count = 1

\* C19: when broadcasts overlap, each suspended at its awaited sends, every
\* subscriber receives the events that reach it in the order in which
\* broadcast was invoked: an event of an earlier invocation is never
\* received after an event of a later one.
C19_SubscriberSeesInvocationOrder ==
    \A c \in Connections :
        \A k, l \in 1..Len(received[c]) : k < l => received[c][k] < received[c][l]

\* C20: however the acquire calls of concurrent callers interleave within one
\* time slot, the grants of the slot never exceed the ceiling and the window
\* counts every one of them, acquire being one atomic increment-and-check on
\* the stored window and not a read followed by a write.
C20_ConcurrentGrantsWithinCeiling ==
    \A s \in Slots :
        /\ acquireGrants[s] <= max_requests
        /\ WindowCount(window, Bucket, s) = acquireGrants[s]

\* two callers asked while one grant was left in the slot; one was granted
\* the last grant and the other was denied
C20_Witness ==
    \E p, q \in RateCallers :
        /\ p # q
        /\ rres[p] = "granted"
        /\ rres[q] = "denied"
        /\ WindowCount(rseen[p], Bucket, 0) = max_requests - 1
        /\ WindowCount(rseen[q], Bucket, 0) = max_requests - 1
        /\ acquireGrants[0] = max_requests

\* C21: validate_contacts splits its input: every contact is in exactly one
\* of valid and invalid, in input order, and the totals add up to the length
\* of the input; and it judges a contact as dispatch does: a contact is
\* invalid exactly when dispatch records it as failed for validation without
\* calling the Channel Client.
InValid(i) == Cardinality({k \in 1..Len(validation.valid) : validation.valid[k] = i})
InInvalid(i) == Cardinality({k \in 1..Len(validation.invalid) : validation.invalid[k].idx = i})

FailedUnsent(i) ==
    /\ \E k \in 1..Len(failed) : failed[k].idx = i /\ failed[k].error \in ValidationReasons
    /\ SendsFor(i) = {}

C21_ValidateMatchesDispatch ==
    validation.called =>
        /\ validation.exc = "none"
        /\ \A i \in 1..total : InValid(i) + InInvalid(i) = 1
        /\ \A k, l \in 1..Len(validation.valid) :
              k < l => validation.valid[k] < validation.valid[l]
        /\ \A k, l \in 1..Len(validation.invalid) :
              k < l => validation.invalid[k].idx < validation.invalid[l].idx
        /\ validation.total_valid + validation.total_invalid = total
        /\ pc = "done" => \A i \in 1..total : (InInvalid(i) = 1 <=> FailedUnsent(i))

\* the split alone, on the lists validate_contacts returns for
C21_SplitOnly ==
    (validation.called /\ validation.exc = "none") =>
        /\ \A i \in 1..total : InValid(i) + InInvalid(i) = 1
        /\ validation.total_valid + validation.total_invalid = total

\* a phone of fewer than 10 digits is the only disagreement left when no
\* contact holds None
C21_AgreesButForDigits ==
    (validation.called /\ validation.exc = "none" /\ pc = "done") =>
        \A i \in 1..total :
            (InInvalid(i) = 1 <=> FailedUnsent(i)) \/ contacts[i].phone = PhoneAlpha

\* C22: a send that the channel answers with 429 waits the retry-after
\* duration and is then attempted again, within the ceiling of
\* stop_after_attempt requests; the 429 is not what the send returns after a
\* single request.
RateLimitedSend ==
    /\ lastSend.op = "text"
    /\ lastSend.store_up /\ lastSend.granted
    /\ lastSend.script[1] = "s429"

C22_RateLimitedIsRetried ==
    RateLimitedSend =>
        /\ lastSend.waited >= DefaultRetryAfter
        /\ Len(lastSend.requests) >= 2
        /\ Len(lastSend.requests) <= stop_after_attempt

\* what the code does with a 429: it waits, then returns a failure after the
\* one request
C22_WaitsThenReturns ==
    RateLimitedSend =>
        /\ lastSend.waited = DefaultRetryAfter
        /\ Len(lastSend.requests) = 1
        /\ lastSend.exc = "none"
        /\ ~lastSend.ret.success
        /\ lastSend.ret.error = "Rate limited"

\* C23: every persisted Message is passed to the Conversation Aggregator:
\* once a dispatch has returned, the conversation of every counterparty it
\* stored a Message for exists, and its total_messages accounts for those
\* Messages.
MessagesOf(u) == {k \in 1..Len(messages) : messages[k].user_id = u}

C23_DispatchFeedsAggregator ==
    pc = "done" =>
        \A u \in Users :
            MessagesOf(u) # {} =>
                /\ conversations[u].exists
                /\ conversations[u].total_messages >= Cardinality(MessagesOf(u))

\* the dispatcher itself never calls the aggregator: without a status update
\* no conversation exists when it returns
C23_DispatchWritesNoConversation ==
    (pc = "done" /\ status_calls = 0) => \A u \in Users : ~conversations[u].exists

\* C24: the terminal status the dispatch writes is completed whenever
\* successful + failed > 0, also when every recipient failed, and failed only
\* when no recipient was processed, which is the empty list; nothing else is
\* ever written as a terminal status.
C24_CompletedUnlessEmpty ==
    campaign.updates >= 1 =>
        /\ campaign.status \in {"completed", "failed"}
        /\ campaign.status = "completed" <=> Len(successful) + Len(failed) > 0
        /\ campaign.status = "failed" <=> total = 0

\* a campaign of two recipients returned with both failed and nothing
\* delivered, and its record says completed
C24_Witness ==
    /\ pc = "done"
    /\ total = 2
    /\ successful = <<>>
    /\ Len(failed) = 2
    /\ campaign.updates = 1
    /\ campaign.status = "completed"

\* the empty list: the record says failed
C24_EmptyListFails ==
    (pc = "done" /\ total = 0) => campaign.status = "failed"

\* C25: a broadcast during which handles subscribe or unsubscribe, while it
\* is suspended in a send, still returns without error, has delivered the
\* event to every handle that stayed subscribed from its start to its end,
\* and has pruned every handle whose delivery failed; a change of the
\* subscriber set never aborts it.
Stayed(b) == (bstart[b] \cap active_connections') \ dead_connections[b]

C25_SetChangeNeverAborts ==
    [][ \A b \in Broadcasters :
          bpc[b] = "iter" =>
              /\ bpc'[b] # "error"
              /\ bpc'[b] = "done" =>
                    /\ dead_connections[b] \cap active_connections' = {}
                    /\ \A c \in Stayed(b) : Deliveries(received'[c], bevent[b]) = 1 ]_vars

\* what is left of it in the code: a broadcast that does return has
\* delivered to the handles that stayed and pruned the failed ones
C25_DeliversWhenItReturns ==
    [][ \A b \in Broadcasters :
          (bpc[b] = "iter" /\ bpc'[b] = "done") =>
              /\ dead_connections[b] \cap active_connections' = {}
              /\ \A c \in Stayed(b) : Deliveries(received'[c], bevent[b]) = 1 ]_vars

\* C26: in every reachable state of every conversation
\* 0 <= unread_count <= total_messages, and no operation on conversations
\* (folding an inbound or an outbound message, a status update) ever
\* decreases unread_count or total_messages.
CountersInRange(u) ==
    /\ 0 <= conversations[u].unread_count
    /\ conversations[u].unread_count <= conversations[u].total_messages

C26_UnreadWithinTotal ==
    /\ [](\A u \in Users : CountersInRange(u))
    /\ [][ \A u \in Users :
             /\ conversations'[u].unread_count >= conversations[u].unread_count
             /\ conversations'[u].total_messages >= conversations[u].total_messages ]_vars

\* a conversation that an inbound message created and a status update went
\* over afterwards
C26_Witness ==
    /\ conversations[UserA].exists
    /\ applied[UserA].inbound >= 1
    /\ status_calls = 1
    /\ \A h \in StoreCallers : wpc[h] = "idle"
    /\ CountersInRange(UserA)

\* C27: at every call of the progress callback with (processed, total,
\* successCount, failCount), processed = successCount + failCount <= total
\* and processed is greater than at the call before; and a callback that
\* raises does not move the recipient just processed: a recipient recorded
\* as successful is not recorded as failed as well.
ProgressCounts ==
    \A k \in 1..Len(progressLog) :
        /\ progressLog[k][1] = progressLog[k][3] + progressLog[k][4]
        /\ progressLog[k][1] <= progressLog[k][2]

ProgressIncreases ==
    \A k, l \in 1..Len(progressLog) : k < l => progressLog[k][1] < progressLog[l][1]

C27_ProgressCountsProcessed ==
    /\ ProgressCounts
    /\ ProgressIncreases
    /\ \A i \in 1..total : InSuccessful(i) >= 1 => InFailed(i) = 0

\* as long as no recipient is recorded twice, which only a raising callback
\* brings about, the counts are those of the claim
C27_HoldsWhileRecordedOnce ==
    (\A i \in 1..total : InSuccessful(i) + InFailed(i) <= 1) => ProgressCounts

\* processed grows from call to call whatever the callback does
C27_ProcessedGrows == ProgressIncreases

====
